---- MODULE Spec2Model ----
(***************************************************************************)
(* Model of mmlib/simulate.py: class Simulation, its molecular-dynamics    *)
(* driver run_md and its Metropolis Monte-Carlo driver run_mc.             *)
(*                                                                         *)
(* Units.  Python floats are replaced by exact quantities on grids:        *)
(*   - a time is a record [c, f]: c tenths of a picosecond plus f units of *)
(*     1e-10 ps (the value `time`, `etime` and `gtime` are started at);    *)
(*     f stays far below 1e9, so times compare lexicographically;          *)
(*   - a temperature is an integer number of 1e-20 K (the amount           *)
(*     read_in_data adds to the input temperature);                        *)
(*   - accelerations are integers in 0.1 A/ps^2 (acc_conv() = 418.4);      *)
(*     velocities are integers in (0.1 A/ps^2)*(0.05 ps), so that half a   *)
(*     time step is a whole number; both are exact (no rounding);          *)
(*   - coordinates are floating-point numbers with a SigBits-bit           *)
(*     significand: every value stored in coords is rounded to nearest,    *)
(*     ties to even, as IEEE-754 addition does with 53 bits;               *)
(*   - energies are integers in units of kb*|temp|*ln(2), so that the      *)
(*     Boltzmann factor is a power of two (or e when the exponent clamp    *)
(*     saturates); the factor and the uniform draw are held in units of    *)
(*     2^-BfBits.                                                          *)
(* The energy model (mmlib.molecule) and the input reader (mmlib.fileio)   *)
(* are external: what they return is an input of the model.                *)
(* Status lines (print_status) write no record and are not modelled.       *)
(***************************************************************************)
EXTENDS Integers, Sequences, FiniteSets, TLC

\* ---------------------------------------------------------------- bounds
NAtoms == 2
SigBits == 3
MaxTot == 2
MaxFine == 1
MaxConfs == 2
MaxDispConf == 2
MaxTrials == 4
BfBits == 3

\* ------------------------------------------------------ program constants
NDim == 3
ACC_CONV == 4184
TimeEps == 1
TempEps == 1
DefaultTotTime == 10
OpenedConf == 0

Atoms == 1..NAtoms
Dims == 1..NDim

\* ------------------------------------------------------------ arithmetic
Abs(n) == IF n < 0 THEN -n ELSE n

Sign(n) == IF n < 0 THEN -1 ELSE IF n > 0 THEN 1 ELSE 0

RECURSIVE Pow2(_)
Pow2(n) == IF n <= 0 THEN 1 ELSE 2 * Pow2(n - 1)

RECURSIVE BitLen(_)
BitLen(n) == IF n <= 0 THEN 0 ELSE 1 + BitLen(n \div 2)

RECURSIVE Factorial(_)
Factorial(n) == IF n <= 1 THEN 1 ELSE n * Factorial(n - 1)

\* Round an exact value to the nearest float with a SigBits-bit significand,
\* ties to even: the rounding of every float operation whose result is stored.
FRound(n) ==
    IF n = 0 THEN 0
    ELSE LET a == Abs(n)
             e == IF BitLen(a) > SigBits THEN BitLen(a) - SigBits ELSE 0
             q == Pow2(e)
             lo == (a \div q) * q
             r == a - lo
             up == IF 2 * r < q THEN FALSE
                   ELSE IF 2 * r > q THEN TRUE
                   ELSE ((a \div q) % 2) = 1
         IN  Sign(n) * (IF up THEN lo + q ELSE lo)

\* x += y on a float coordinate (simulate.py:273, 274, 291).
FAdd(x, y) == FRound(x + FRound(y))

\* Times.
TimeRec(c, f) == [c |-> c, f |-> f]
TLt(a, b) == a.c < b.c \/ (a.c = b.c /\ a.f < b.f)
TGeq(a, b) == ~TLt(a, b)
TAdd(a, b) == [c |-> a.c + b.c, f |-> a.f + b.f]
NoTime == TimeRec(0, 0)
TimeZero == TimeRec(0, TimeEps)

\* N x 3 arrays.
Checker(a, b) == [i \in Atoms |-> [j \in Dims |-> IF (i + j) % 2 = 0 THEN a ELSE b]]
Uniform(a) == [i \in Atoms |-> [j \in Dims |-> a]]
ZeroArray == Uniform(0)
Neg(A) == [i \in Atoms |-> [j \in Dims |-> -A[i][j]]]

\* ----------------------------------------------------------------- state
VARIABLES
    simtype,      \* "md" or "mc"
    pc,           \* position in run_md / run_mc
    err,          \* the exception that propagated out of the run, or "none"
    temp_in,      \* temperature of the input file [1e-20 K]
    temp,         \* self.temp
    etemp,        \* self.etemp: "unset" until initialize_vels assigns it
    tottime, timestep, time, eqtime, energytime, geomtime,
    totconfs, conf, dispmag, n_accept, n_reject, dispconf,
    energyconf, geomconf,
    mass, coords, vels, accs, pcoords, pvels, paccs,   \* mol.atoms[i].*
    field, g0,    \* the energy model: its kind and its parameter
    g_total,      \* mol.g_total
    e_total,      \* mol.e_total
    penergy, delta_e, bf, rand_disp,                   \* locals of run_mc
    gfile, efile, \* "unopened", "open" or "closed"
    etime, gtime, econf, gconf, dconf,
    e_rows, g_rows,   \* number of records written to efile / gfile
    e_last, g_last,   \* the latest record: where it was written and its label
    vels0,        \* velocities of the input molecule
    coords0,      \* coordinates before the latest trial displacement
    n_steps,      \* Stepping iterations executed
    n_trials,     \* trials executed
    outcome,      \* the latest trial: "accept", "reject" or "raised"; "none" before
    disp_calls,   \* invocations of changedisp
    disp_at,      \* trial number of the latest invocation
    disp_n        \* n_accept + n_reject at the latest invocation

params == <<simtype, temp_in, temp, tottime, timestep, eqtime, energytime,
            geomtime, totconfs, dispconf, energyconf, geomconf, mass, field,
            g0, vels0>>
atomvars == <<coords, vels, accs, pcoords, pvels, paccs, g_total>>
mdvars == <<time, etime, gtime, n_steps, etemp>>
mcvars == <<conf, dispmag, n_accept, n_reject, e_total, penergy, delta_e, bf,
            rand_disp, econf, gconf, dconf, coords0, n_trials, outcome,
            disp_calls, disp_at, disp_n>>
outvars == <<gfile, efile, e_rows, g_rows, e_last, g_last>>
vars == <<pc, err, params, atomvars, mdvars, mcvars, outvars>>

\* ---------------------------------------------------------------- inputs
TempInputs == {-2, -1, 0, 1}
TimeSteps == {TimeRec(1, 0), TimeRec(2, 0)}
TotTimes == { TimeRec(c, f) : c \in 0..MaxTot, f \in 0..MaxFine }
            \cup {TimeRec(DefaultTotTime, 0)}
EqTimes == {NoTime, TimeRec(1, 0)}
EnergyTimes == {TimeRec(1, 0), TimeRec(2, 0)}
GeomTimes == {TimeRec(2, 0)}
PrintConfs == {1, 2}
GradArrays == {Checker(2, -4), Uniform(-2)}
Fields == {"uniform", "well"}
VelDraws == {ZeroArray, Checker(3, -1)}
VelScales == {1, 2}
InitVels == {ZeroArray, Checker(6, -2)}
InitCoords == Checker(5, -3)
RandDisps == {Checker(4, -1), Checker(-2, 1)}
Energies == {0, 1, 3}
BfOne == Pow2(BfBits)
Draws == {0, BfOne - 1}
Masses == [i \in Atoms |-> IF i % 2 = 1 THEN 1 ELSE 2]
NoRecord == [at |-> "none", label |-> 0]

\* Simulation.__init__ (defaults) followed by read_in_data (inputs).
Init ==
    /\ simtype \in {"md", "mc"}
    /\ pc = "new"
    /\ err = "none"
    /\ temp_in \in TempInputs
    /\ temp = temp_in + TempEps
    /\ etemp = "unset"
    /\ time = TimeZero
    /\ conf = 0
    /\ dispmag = 0
    /\ n_accept = 0
    /\ n_reject = 0
    /\ IF simtype = "md"
       THEN /\ tottime \in TotTimes
            /\ timestep \in TimeSteps
            /\ eqtime \in EqTimes
            /\ energytime \in EnergyTimes
            /\ geomtime \in GeomTimes
            /\ field \in Fields
            /\ g0 \in GradArrays
            /\ vels0 \in InitVels
            /\ totconfs = 0 /\ dispconf = 0 /\ energyconf = 1 /\ geomconf = 1
       ELSE /\ totconfs \in 0..MaxConfs
            /\ dispconf \in 0..MaxDispConf
            /\ energyconf \in PrintConfs
            /\ geomconf = MaxConfs
            /\ tottime = NoTime /\ timestep = TimeRec(1, 0) /\ eqtime = NoTime
            /\ energytime = TimeRec(1, 0) /\ geomtime = TimeRec(1, 0)
            /\ field = "uniform" /\ g0 = ZeroArray
            /\ vels0 = Checker(6, -2)
    /\ mass = Masses
    /\ coords = InitCoords
    /\ vels = vels0
    /\ accs = ZeroArray
    /\ pcoords = ZeroArray /\ pvels = ZeroArray /\ paccs = ZeroArray
    /\ g_total = ZeroArray
    /\ e_total = 0 /\ penergy = 0 /\ delta_e = 0 /\ bf = 0
    /\ rand_disp = ZeroArray
    /\ gfile = "unopened" /\ efile = "unopened"
    /\ etime = NoTime /\ gtime = NoTime
    /\ econf = 0 /\ gconf = 0 /\ dconf = 0
    /\ e_rows = 0 /\ g_rows = 0
    /\ e_last = NoRecord /\ g_last = NoRecord
    /\ coords0 = InitCoords
    /\ n_steps = 0 /\ n_trials = 0
    /\ outcome = "none"
    /\ disp_calls = 0 /\ disp_at = 0 /\ disp_n = 0

\* ------------------------------------------------- kinematic primitives
\* The energy model's gradient at positions x: a pure function of x.
Gradient(x) ==
    [i \in Atoms |-> [j \in Dims |->
        IF field = "uniform" THEN g0[i][j] ELSE Abs(g0[i][j]) * Sign(x[i][j])]]

\* update_accs: accs = -acc_conv() * g_total / mass.
UpdateAccs(g) ==
    [i \in Atoms |-> [j \in Dims |-> (0 - ACC_CONV * g[i][j]) \div mass[i]]]

\* update_vels(tstep): vels += accs * tstep; tstep in units of 0.05 ps.
UpdateVels(v, a, tstep) ==
    [i \in Atoms |-> [j \in Dims |-> v[i][j] + a[i][j] * tstep]]

\* update_coords(tstep, vconst, aconst); tstep in units of 0.05 ps.
UpdateCoords(x, v, a, tstep, vconst, aconst) ==
    LET dt == vconst * tstep
        dt2 == aconst * tstep * tstep
    IN  [i \in Atoms |-> [j \in Dims |->
            FAdd(FAdd(x[i][j], v[i][j] * dt), a[i][j] * dt2)]]

\* disp_coords(disp_vector): coords += disp_vector.
DispCoords(x, d) == [i \in Atoms |-> [j \in Dims |-> FAdd(x[i][j], d[i][j])]]

\* zero_vels.
ZeroVels == [i \in Atoms |-> [j \in Dims |-> 0]]

\* Mutant of HalfStep: the first velocity update takes a whole step.
HalfStepWhole(ts) == 2 * ts.c

\* The arguments run_md gives update_vels: 0.5 * timestep, then timestep.
HalfStep(ts) == ts.c
FullStep(ts) == 2 * ts.c

\* The guard of initialize_vels.
InitVelsGuard == temp > 0

\* Mutants of the loop conditions: <= for <.
MdLoopCondLe == ~TLt(tottime, time)
McLoopCondLe == conf <= totconfs

\* The loop conditions of run_md and run_mc.
MdLoopCond == TLt(time, tottime)
McLoopCond == conf < totconfs

\* The arguments run_md and run_mc give check_print_* after the loop.
FinalPrintAll == FALSE

\* Scaling of all velocities by a factor (initialize_vels, equilibrate_temp).
ScaleVels(v, s) == [i \in Atoms |-> [j \in Dims |-> v[i][j] * s]]

\* ------------------------------------------------------ output scheduling
\* open_output_files. For "mc" it also sets gconf = econf = 0; the callers
\* hand that value, OpenedConf, to the check_print_mc that follows.
OpenOutputFiles ==
    /\ gfile' = "open"
    /\ efile' = "open"
    /\ IF simtype = "md"
       THEN /\ gtime' = TimeZero
            /\ etime' = TimeZero
            /\ UNCHANGED dconf
       ELSE /\ dconf' = 0
            /\ UNCHANGED <<gtime, etime>>

\* close_output_files.
CloseOutputFiles ==
    /\ gfile' = "closed"
    /\ efile' = "closed"

\* check_print_md(timestep, print_all), entered with etime = et, gtime = gt.
CheckPrintMd(et, gt, tstep, print_all, at) ==
    LET pe == print_all \/ TGeq(et, energytime)
        pg == print_all \/ TGeq(gt, geomtime)
    IN  /\ e_rows' = IF pe THEN e_rows + 1 ELSE e_rows
        /\ e_last' = IF pe THEN [at |-> at, label |-> time.c] ELSE e_last
        /\ g_rows' = IF pg THEN g_rows + 1 ELSE g_rows
        /\ g_last' = IF pg THEN [at |-> at, label |-> time.c] ELSE g_last
        /\ etime' = TAdd(IF pe THEN TimeZero ELSE et, tstep)
        /\ gtime' = TAdd(IF pg THEN TimeZero ELSE gt, tstep)

\* check_print_mc(n_conf, print_all), entered with econf = ec, gconf = gc.
CheckPrintMc(ec, gc, n_conf, print_all, at) ==
    LET pe == print_all \/ ec >= energyconf
        pg == print_all \/ gc >= geomconf
    IN  /\ e_rows' = IF pe THEN e_rows + 1 ELSE e_rows
        /\ e_last' = IF pe THEN [at |-> at, label |-> conf] ELSE e_last
        /\ g_rows' = IF pg THEN g_rows + 1 ELSE g_rows
        /\ g_last' = IF pg THEN [at |-> at, label |-> conf] ELSE g_last
        /\ econf' = (IF pe THEN 0 ELSE ec) + n_conf
        /\ gconf' = (IF pg THEN 0 ELSE gc) + n_conf

\* An exception leaves the run: nothing after the raising call is executed.
Raise(e) ==
    /\ pc' = "failed"
    /\ err' = e

\* --------------------------------------------------------------- run_md
\* run_md: open_output_files(); initialize_vels().
MDInit ==
    /\ simtype = "md" /\ pc = "new"
    /\ OpenOutputFiles
    /\ IF InitVelsGuard
       THEN \E draw \in VelDraws, vscale \in VelScales :
                /\ draw # ZeroArray
                /\ etemp' = "set"
                /\ vels' = ScaleVels(draw, vscale)
       ELSE UNCHANGED <<etemp, vels>>
    /\ pc' = "inited"
    /\ UNCHANGED <<err, params, coords, accs, pcoords, pvels, paccs, g_total,
                   time, n_steps, mcvars, e_rows, g_rows, e_last, g_last>>

\* initialize_vels raising: the energy model fails, or every drawn velocity
\* is zero, so mol.temp = 0 and temp / mol.temp divides by zero.
MDInitFail ==
    /\ simtype = "md" /\ pc = "new"
    /\ InitVelsGuard
    /\ OpenOutputFiles
    /\ etemp' = "set"
    /\ \E draw \in VelDraws :
          /\ vels' = draw
          /\ \/ Raise("EnergyModelFailure")
             \/ draw = ZeroArray /\ Raise("ZeroDivisionError")
    /\ UNCHANGED <<params, coords, accs, pcoords, pvels, paccs, g_total,
                   time, n_steps, mcvars, e_rows, g_rows, e_last, g_last>>

\* run_md, Started: get_energy, get_gradient, update_accs,
\* check_print_md(0.0, True), update_vels(0.5 * timestep).
MDStart ==
    /\ simtype = "md" /\ pc = "inited"
    /\ g_total' = Gradient(coords)
    /\ paccs' = accs
    /\ accs' = UpdateAccs(g_total')
    /\ CheckPrintMd(etime, gtime, NoTime, TRUE, "start")
    /\ pvels' = vels
    /\ vels' = UpdateVels(vels, accs', HalfStep(timestep))
    /\ pc' = "stepping"
    /\ UNCHANGED <<err, params, coords, pcoords, time, n_steps, etemp, mcvars,
                   gfile, efile>>

\* The energy model raising in get_energy or get_gradient of Started.
MDStartFail ==
    /\ simtype = "md" /\ pc = "inited"
    /\ Raise("EnergyModelFailure")
    /\ UNCHANGED <<params, atomvars, mdvars, mcvars, outvars>>

\* run_md, one iteration of the while loop.
MDStep ==
    /\ simtype = "md" /\ pc = "stepping"
    /\ MdLoopCond
    /\ pcoords' = coords
    /\ coords' = UpdateCoords(coords, vels, accs, FullStep(timestep), 1, 0)
    /\ g_total' = Gradient(coords')
    /\ paccs' = accs
    /\ accs' = UpdateAccs(g_total')
    /\ pvels' = vels
    /\ IF TLt(time, eqtime)
       THEN /\ etemp # "unset"
            /\ \E velscale \in VelScales :
                  vels' = ScaleVels(UpdateVels(vels, accs', FullStep(timestep)),
                                    velscale)
       ELSE vels' = UpdateVels(vels, accs', FullStep(timestep))
    /\ CheckPrintMd(etime, gtime, timestep, FALSE, "loop")
    /\ time' = TAdd(time, timestep)
    /\ n_steps' = n_steps + 1
    /\ UNCHANGED <<pc, err, params, etemp, mcvars, gfile, efile>>

\* An iteration that raises: get_gradient fails after update_coords; or
\* get_energy fails after update_vels; or equilibrate_temp reads self.etemp,
\* which initialize_vels never assigned.
MDStepFail ==
    /\ simtype = "md" /\ pc = "stepping"
    /\ MdLoopCond
    /\ pcoords' = coords
    /\ coords' = UpdateCoords(coords, vels, accs, FullStep(timestep), 1, 0)
    /\ \/ /\ Raise("EnergyModelFailure")
          /\ UNCHANGED <<g_total, accs, paccs, vels, pvels>>
       \/ /\ \/ Raise("EnergyModelFailure")
             \/ TLt(time, eqtime) /\ etemp = "unset" /\ Raise("AttributeError")
          /\ g_total' = Gradient(coords')
          /\ paccs' = accs
          /\ accs' = UpdateAccs(g_total')
          /\ pvels' = vels
          /\ vels' = UpdateVels(vels, accs', FullStep(timestep))
    /\ UNCHANGED <<params, mdvars, mcvars, outvars>>

\* run_md after the loop: check_print_md(timestep); close_output_files().
MDFinish ==
    /\ simtype = "md" /\ pc = "stepping"
    /\ ~MdLoopCond
    /\ CheckPrintMd(etime, gtime, timestep, FinalPrintAll, "final")
    /\ CloseOutputFiles
    /\ pc' = "done"
    /\ UNCHANGED <<err, params, atomvars, time, n_steps, etemp, mcvars>>

\* --------------------------------------------------------------- run_mc
\* exp(1.0) in units of 1 / BfOne, rounded down.
ExpOne == (2718 * BfOne) \div 1000

\* Mutant of BoltzmannFactor: the exponent loses its sign.
BoltzmannFactorUnsigned(de, t) ==
    LET k == de * Sign(t)
    IN  IF k >= 2 THEN ExpOne
        ELSE IF k >= 0 THEN BfOne * Pow2(k)
        ELSE BfOne \div Pow2(0 - k)

\* bf = math.exp(min(1.0, -1.0 * delta_e / (energy.kb() * self.temp))), in
\* units of 1 / BfOne. With de in units of kb*|t|*ln(2) the exponent is
\* k * ln(2), k = -de * Sign(t), and exceeds 1.0 exactly when k >= 2.
BoltzmannFactor(de, t) ==
    LET k == (0 - de) * Sign(t)
    IN  IF k >= 2 THEN ExpOne
        ELSE IF k >= 0 THEN BfOne * Pow2(k)
        ELSE BfOne \div Pow2(0 - k)

\* The acceptance test of run_mc.
Accepts(b, u) == b >= u

\* Mutant of AfterReject: a rejected trial is not counted.
AfterRejectUncounted(n) == n

\* The counts after a rejected / an accepted trial.
AfterReject(n) == n + 1
AfterAccept(n) == n + 1

\* changedisp: dispmag *= exp(2 * dispinc * (p_accept - 0.5)), dispinc = ln 2,
\* that is dispmag *= 2 ^ ((a - r) / (a + r)). dispmag holds
\* log2(dispmag / 0.1) in units of 1 / DispDen.
DispDen == Factorial(MaxDispConf + 1)
ChangeDisp(mag, a, r) == mag + ((a - r) * DispDen) \div (a + r)

\* The test of check_disp.
DispDue(d) == d >= dispconf

\* check_disp, entered with n_accept = a and n_reject = r.
CheckDisp(a, r) ==
    IF DispDue(dconf)
    THEN /\ disp_calls' = disp_calls + 1
         /\ disp_at' = n_trials + 1
         /\ disp_n' = a + r
         /\ IF a + r = 0
            THEN \* float(n_accept) / float(0) raises
                 /\ Raise("ZeroDivisionError in changedisp")
                 /\ n_accept' = a
                 /\ n_reject' = r
                 /\ UNCHANGED <<dispmag, dconf>>
            ELSE /\ dispmag' = ChangeDisp(dispmag, a, r)
                 /\ n_accept' = 0
                 /\ n_reject' = 0
                 /\ dconf' = 0 + 1
                 /\ UNCHANGED <<pc, err>>
    ELSE /\ n_accept' = a
         /\ n_reject' = r
         /\ dconf' = dconf + 1
         /\ UNCHANGED <<pc, err, dispmag, disp_calls, disp_at, disp_n>>

\* run_mc, Started: open_output_files, zero_vels, get_energy,
\* check_print_mc(0, True), penergy = mol.e_total.
MCStart ==
    /\ simtype = "mc" /\ pc = "new"
    /\ OpenOutputFiles
    /\ vels' = ZeroVels
    /\ \E e \in Energies :
          /\ e_total' = e
          /\ penergy' = e
    /\ CheckPrintMc(OpenedConf, OpenedConf, 0, TRUE, "start")
    /\ pc' = "trialing"
    /\ UNCHANGED <<err, params, coords, accs, pcoords, pvels, paccs, g_total,
                   mdvars, conf, dispmag, n_accept, n_reject, delta_e, bf,
                   rand_disp, coords0, n_trials, outcome, disp_calls, disp_at,
                   disp_n>>

\* The energy model raising in get_energy of Started.
MCStartFail ==
    /\ simtype = "mc" /\ pc = "new"
    /\ OpenOutputFiles
    /\ vels' = ZeroVels
    /\ Raise("EnergyModelFailure")
    /\ econf' = OpenedConf
    /\ gconf' = OpenedConf
    /\ UNCHANGED <<params, coords, accs, pcoords, pvels, paccs, g_total,
                   mdvars, conf, dispmag, n_accept, n_reject, e_total, penergy,
                   delta_e, bf, rand_disp, coords0, n_trials, outcome,
                   disp_calls, disp_at, disp_n, e_rows, g_rows, e_last, g_last>>

\* run_mc, one iteration of the while loop: a trial.
MCTrial ==
    /\ simtype = "mc" /\ pc = "trialing"
    /\ McLoopCond
    /\ n_trials < MaxTrials
    /\ temp # 0
    /\ \E d \in RandDisps, e \in Energies, u \in Draws :
          LET moved == DispCoords(coords, d)
              de == e - penergy
              b == BoltzmannFactor(de, temp)
          IN  /\ rand_disp' = d
              /\ coords0' = coords
              /\ e_total' = e
              /\ delta_e' = de
              /\ bf' = b
              /\ IF Accepts(b, u)
                 THEN /\ outcome' = "accept"
                      /\ pcoords' = coords
                      /\ coords' = moved
                      /\ CheckPrintMc(econf, gconf, 1, FALSE, "loop")
                      /\ conf' = conf + 1
                      /\ penergy' = e
                      /\ CheckDisp(AfterAccept(n_accept), n_reject)
                 ELSE /\ outcome' = "reject"
                      /\ pcoords' = moved
                      /\ coords' = DispCoords(moved, Neg(d))
                      /\ CheckDisp(n_accept, AfterReject(n_reject))
                      /\ UNCHANGED <<conf, penergy, econf, gconf, e_rows,
                                     g_rows, e_last, g_last>>
    /\ n_trials' = n_trials + 1
    /\ UNCHANGED <<params, vels, accs, pvels, paccs, g_total, mdvars,
                   gfile, efile>>

\* A trial that raises: get_energy fails after the displacement; or
\* temp = 0 and the exponent divides by zero; or changedisp divides by zero.
MCTrialFail ==
    /\ simtype = "mc" /\ pc = "trialing"
    /\ McLoopCond
    /\ n_trials < MaxTrials
    /\ \E d \in RandDisps :
          /\ rand_disp' = d
          /\ coords0' = coords
          /\ pcoords' = coords
          /\ coords' = DispCoords(coords, d)
    /\ \/ /\ Raise("EnergyModelFailure")
          /\ UNCHANGED <<e_total, delta_e>>
       \/ /\ temp = 0
          /\ Raise("ZeroDivisionError")
          /\ \E e \in Energies :
                /\ e_total' = e
                /\ delta_e' = e - penergy
    /\ outcome' = "raised"
    /\ UNCHANGED <<params, vels, accs, pvels, paccs, g_total, mdvars, conf,
                   dispmag, n_accept, n_reject, penergy, bf, econf, gconf,
                   dconf, n_trials, disp_calls, disp_at, disp_n, outvars>>

\* run_mc after the loop: check_print_mc(0); close_output_files().
MCFinish ==
    /\ simtype = "mc" /\ pc = "trialing"
    /\ ~McLoopCond
    /\ CheckPrintMc(econf, gconf, 0, FinalPrintAll, "final")
    /\ CloseOutputFiles
    /\ pc' = "done"
    /\ UNCHANGED <<err, params, atomvars, mdvars, conf, dispmag, n_accept,
                   n_reject, e_total, penergy, delta_e, bf, rand_disp, dconf,
                   coords0, n_trials, outcome, disp_calls, disp_at, disp_n>>

\* ---------------------------------------------------------- specification
Next ==
    \/ MDInit
    \/ MDInitFail
    \/ MDStart
    \/ MDStartFail
    \/ MDStep
    \/ MDStepFail
    \/ MDFinish
    \/ MCStart
    \/ MCStartFail
    \/ MCTrial
    \/ MCTrialFail
    \/ MCFinish

Spec == Init /\ [][Next]_vars

\* ================================================================ claims

\* The input temperature is physical (not negative). The statements that the
\* code refutes are stated for such inputs only, so that every refuting run
\* starts from an input file a user would write.
PhysicalInput == temp_in >= 0

\* ---- C1 ----------------------------------------------------------------
\* C1: in run_mc the configuration count never exceeds total_configurations,
\* a trial raises it by exactly 1 when accepted and by 0 when rejected, and it
\* equals total_configurations when the trial loop has exited.
C1_ConfCountBounded ==
    /\ [](simtype = "mc" =>
            /\ conf <= totconfs
            /\ (pc = "done" => conf = totconfs))
    /\ [][(simtype = "mc" /\ n_trials' = n_trials + 1) =>
            /\ outcome' \in {"accept", "reject"}
            /\ conf' = conf + (IF outcome' = "accept" THEN 1 ELSE 0)]_vars

\* A reject-heavy run that finished: more rejections than acceptances.
C1_Witness ==
    /\ simtype = "mc" /\ pc = "done"
    /\ totconfs > 0 /\ conf = totconfs
    /\ n_trials > 2 * conf

\* ---- C2 ----------------------------------------------------------------
CeilDiv(a, b) == (a + b - 1) \div b

\* ceil(t / ts) for a time step ts of whole tenths of a picosecond.
CeilSteps(t, ts) ==
    IF t.f = 0 THEN CeilDiv(t.c, ts.c) ELSE (t.c \div ts.c) + 1

\* ceil((t - 1e-10 ps) / ts), and 0 when t <= 1e-10 ps.
CeilStepsFromStart(t, ts) ==
    IF ~TLt(TimeZero, t) THEN 0
    ELSE IF t.f <= TimeEps THEN CeilDiv(t.c, ts.c)
    ELSE (t.c \div ts.c) + 1

\* C2 as stated: run_md executes exactly ceil(total_time / time_step)
\* Stepping iterations.
C2_Original ==
    (PhysicalInput /\ simtype = "md" /\ pc = "done") => n_steps = CeilSteps(tottime, timestep)

\* C2 amended: run_md executes exactly ceil((total_time - t0) / time_step)
\* iterations, t0 = 1e-10 ps being the time the Simulation is constructed
\* with (none when total_time <= t0); simulated_time ends at t0 plus that many
\* time steps; the count is ceil(total_time / time_step) whenever total_time
\* is a whole multiple of time_step, and 10 for total_time = 1.0, step 0.1.
C2_Amended ==
    (simtype = "md" /\ pc = "done") =>
        /\ n_steps = CeilStepsFromStart(tottime, timestep)
        /\ time = TimeRec(n_steps * timestep.c, TimeEps)
        /\ ~TLt(time, tottime)
        /\ (tottime.f = 0 /\ tottime.c % timestep.c = 0) =>
                n_steps = CeilSteps(tottime, timestep)
        /\ (tottime = TimeRec(DefaultTotTime, 0) /\ timestep = TimeRec(1, 0)) =>
                n_steps = 10

\* The run of total_time = 1.0 ps with time_step = 0.1 ps has finished.
C2_Witness ==
    /\ simtype = "md" /\ pc = "done"
    /\ tottime = TimeRec(DefaultTotTime, 0) /\ timestep = TimeRec(1, 0)
    /\ n_steps = 10

\* ---- C3 ----------------------------------------------------------------
\* The run started from rest, under a constant nonzero force, without
\* thermal equilibration, and has executed Started and one Stepping iteration.
C3_Case ==
    /\ simtype = "md" /\ pc = "stepping" /\ n_steps = 1
    /\ vels0 = ZeroArray /\ etemp = "unset"
    /\ paccs = accs /\ \A i \in Atoms, j \in Dims : accs[i][j] # 0
    /\ ~TLt(TimeZero, eqtime)

\* C3: in that case every velocity component is acceleration * 1.5 *
\* time_step (velocities are in units of 0.05 ps, so 1.5 * time_step is
\* 3 * timestep.c).
C3_LeapfrogStagger ==
    C3_Case => \A i \in Atoms, j \in Dims :
                  vels[i][j] = accs[i][j] * 3 * timestep.c

C3_Witness ==
    /\ C3_Case
    /\ timestep = TimeRec(2, 0)
    /\ \E i \in Atoms, j \in Dims : vels[i][j] # vels[1][1]

\* ---- C4 ----------------------------------------------------------------
\* The latest trial ran to its accept/reject decision at a positive
\* temperature with delta_E <= 0.
C4_Case ==
    /\ simtype = "mc" /\ outcome \in {"accept", "reject"}
    /\ temp > 0
    /\ delta_e <= 0

\* C4 as stated: for delta_E <= 0 the factor bf evaluates to 1 and the trial
\* is accepted.
C4_Original == C4_Case => (bf = BfOne /\ outcome = "accept")

\* C4 amended: for delta_E <= 0 (at a positive temperature) the factor bf is
\* at least 1 and at most e, equal to 1 only for delta_E = 0, so the trial is
\* accepted for every uniform draw in [0,1).
C4_Amended ==
    C4_Case =>
        /\ bf >= BfOne /\ bf <= ExpOne
        /\ (bf = BfOne <=> delta_e = 0)
        /\ outcome = "accept"

\* A trial lowered the energy and its factor exceeded 1.
C4_Witness == C4_Case /\ delta_e < 0 /\ bf > BfOne /\ outcome = "accept"

\* ---- C5 ----------------------------------------------------------------
\* C5: after a rejected trial every position equals the position held
\* immediately before that trial's displacement.
C5_ExactReversal ==
    (PhysicalInput /\ simtype = "mc" /\ outcome = "reject") => coords = coords0

\* ---- C6 ----------------------------------------------------------------
\* C6: velocity initialization for an input temperature of 0 leaves every
\* velocity component at its pre-call value.
C6_ZeroTempNoOp ==
    (simtype = "md" /\ pc = "inited" /\ temp_in = 0) => vels = vels0

\* ---- C7 ----------------------------------------------------------------
\* C7: when a run has ended, normally or by a failure that propagated out of
\* the step/trial loop (the forced record of Started is written), both output
\* files have been closed.
C7_FilesReleased ==
    (PhysicalInput /\ (pc = "done" \/ (pc = "failed" /\ e_rows > 0))) =>
        (gfile = "closed" /\ efile = "closed")

\* ---- C8 ----------------------------------------------------------------
\* C8: the k-th invocation of changedisp happens at trial k * dispconf and
\* averages over exactly dispconf trials (stated for dispconf >= 1).
C8_Cadence ==
    (PhysicalInput /\ simtype = "mc" /\ dispconf >= 1 /\ disp_calls > 0) =>
        /\ disp_at = disp_calls * dispconf
        /\ disp_n = dispconf

\* ---- C9 ----------------------------------------------------------------
\* C9: whenever changedisp has been invoked, at least one trial had been
\* counted since the counters were last reset, whatever dispconf is, and the
\* division never raised.
C9_NoZeroDivide ==
    (simtype = "mc" /\ disp_calls > 0) =>
        /\ disp_n >= 1
        /\ err # "ZeroDivisionError in changedisp"

\* changedisp was invoked after every one of several trials (dispconf = 0).
C9_Witness ==
    /\ simtype = "mc" /\ dispconf = 0
    /\ disp_calls >= 2 /\ disp_at = disp_calls
    /\ disp_n = 1

\* ---- C10 ---------------------------------------------------------------
\* C10: a finished run that executed at least one step or trial wrote its
\* latest energy record and its latest geometry record after the loop.
C10_FinalForcedOutput ==
    (PhysicalInput /\ pc = "done" /\ (n_steps > 0 \/ n_trials > 0)) =>
        (e_last.at = "final" /\ g_last.at = "final")
====
